---- MODULE Spec2Model ----
(***************************************************************************)
(* env-extract: the EnvVar derive macro (src/src/lib.rs, enum_from_env)    *)
(* and the code it generates (get, get_result, default), together with the *)
(* enum field of the ConfigStruct derive macro (env_for_struct).           *)
(*                                                                         *)
(* Strings are sequences of one-character strings, so that case conversion *)
(* and whole-string equality are computed and not assumed.  An Option is a *)
(* sequence of length 0 (None) or 1 (Some).                                *)
(***************************************************************************)
EXTENDS Integers, Sequences, FiniteSets, TLC

VARIABLES
    variants,          \* the enum's variants in declaration order
    enum_case,         \* #[case(convert = ...)] on the enum, "none" when absent
    panic_on_invalid,  \* #[panic_on_invalid] on the enum
    impl,              \* what enum_from_env produced for this declaration
    env,               \* the variable var_name_to_check_for: None or Some(value)
    ret,               \* the last call since env changed, and its outcome
    var_name,          \* #[var_name = "..."] on the enum: None or Some(name)
    field,             \* one field of a struct that derives ConfigStruct
    store,             \* the process environment: variable name -> Option
    populated,         \* the field as the last get() of the struct left it, and
                       \* the variable the last call read
    run                \* a call of get() or get_result() running step by step

enumVars == <<variants, enum_case, panic_on_invalid, impl, env, ret>>
structVars == <<var_name, field, store, populated>>
vars == <<enumVars, structVars, run>>

----------------------------------------------------------------------------
(* Bounds of the model *)

\* longest variant list that is declared
MaxVariants == 2

----------------------------------------------------------------------------
(* Strings *)

UpperAlpha == <<"A","B","C","D","E","F","G","H","I","J","K","L","M",
                "N","O","P","Q","R","S","T","U","V","W","X","Y","Z">>
LowerAlpha == <<"a","b","c","d","e","f","g","h","i","j","k","l","m",
                "n","o","p","q","r","s","t","u","v","w","x","y","z">>

\* position of character c in alphabet a, 0 when it is not a letter of a
IndexIn(a, c) ==
    IF \E k \in DOMAIN a : a[k] = c THEN CHOOSE k \in DOMAIN a : a[k] = c ELSE 0

\* str::to_uppercase on ASCII text
to_uppercase(s) ==
    [k \in DOMAIN s |->
        IF IndexIn(LowerAlpha, s[k]) # 0 THEN UpperAlpha[IndexIn(LowerAlpha, s[k])] ELSE s[k]]

\* str::to_lowercase on ASCII text
to_lowercase(s) ==
    [k \in DOMAIN s |->
        IF IndexIn(UpperAlpha, s[k]) # 0 THEN LowerAlpha[IndexIn(UpperAlpha, s[k])] ELSE s[k]]

None == <<>>
Some(x) == <<x>>

\* the identifiers the model declares as variants
NameAb == <<"A","b">>
NameAB == <<"A","B">>
NameInvalid == <<"I","n","v","a","l","i","d">>
VariantNames == {NameAb, NameAB, NameInvalid}

\* the values the external environment may hold for the variable
EnvValues == { NameAb, NameAB, <<"a","b">>, <<"A">>, NameInvalid }

\* A message is a format string with the values interpolated into it.
Msg(text, args) == [text |-> text, args |-> args]
NoMsg == Msg("", <<>>)

\* the fixed text of the generated panic and of the generated Err
InvalidMsg == Msg("Invalid environment variable value", <<>>)

\* the enum's identifier, and its #[var_name = "..."] attribute (none here)
enum_name == <<"M","o","d","e">>
var_name_attr == None

\* get_var_name: the var_name attribute when there is one
get_var_name(attr) == attr

\* the variable the generated code reads
var_name_to_check_for ==
    IF get_var_name(var_name_attr) # None THEN get_var_name(var_name_attr)[1]
    ELSE to_uppercase(enum_name)

----------------------------------------------------------------------------
(* The derive input *)

CaseAttrs == {"none", "uppercase", "lowercase", "exact", "any"}

\* one unit variant with its attributes
VariantDecl ==
    [name : VariantNames, case : CaseAttrs, ignore_variant : BOOLEAN, default : BOOLEAN]

\* The declarations of the model.  Identifiers of one enum are pairwise
\* distinct (rustc rejects a duplicate).  To keep the set small, at most one
\* variant is marked #[default], at most one #[ignore_variant], and the
\* variant called Invalid carries no `case` attribute of its own.
VariantLists ==
    { vs \in UNION { [1..n -> VariantDecl] : n \in 0..MaxVariants } :
        /\ \A i, j \in DOMAIN vs : i # j => vs[i].name # vs[j].name
        /\ \A i, j \in DOMAIN vs : vs[i].default /\ vs[j].default => i = j
        /\ \A i, j \in DOMAIN vs : vs[i].ignore_variant /\ vs[j].ignore_variant => i = j
        /\ \A i \in DOMAIN vs : vs[i].name = NameInvalid => vs[i].case = "none" }

----------------------------------------------------------------------------
(* enum_from_env: what the macro computes from the declaration *)

\* get_case_conversion: the rule of a `case` attribute and whether one was found
get_case_conversion(attr) ==
    CASE attr = "uppercase" -> <<"Uppercase", TRUE>>
      [] attr = "lowercase" -> <<"Lowercase", TRUE>>
      [] attr = "exact"     -> <<"Exact", TRUE>>
      [] attr = "any"       -> <<"Any", TRUE>>
      [] OTHER              -> <<"Exact", FALSE>>

\* the method call that is spliced after the variant's name for a CaseConversion
ConversionTokens(conversion) ==
    CASE conversion = "Uppercase" -> "to_uppercase"
      [] conversion = "Lowercase" -> "to_lowercase"
      [] conversion = "Exact"     -> ""
      [] conversion = "Any"       -> "to_lowercase"

default_case_conversion(ec) == ConversionTokens(get_case_conversion(ec)[1])

\* conversion of the variant's name: the variant's own rule when it has one,
\* otherwise the enum's
variant_case_conversion(v, ec) ==
    LET case == get_case_conversion(v.case)
    IN  IF case[2] THEN ConversionTokens(case[1]) ELSE default_case_conversion(ec)

\* a variant of var_case_conversion that converts the value under every rule,
\* as the attribute's documentation words it
var_case_conversion_every_rule(v, ec) ==
    ConversionTokens(get_case_conversion(v.case)[1])

\* conversion of the variable's value: decided by the variant's own attribute
var_case_conversion(v, ec) ==
    LET case == get_case_conversion(v.case)
    IN  IF case[1] = "Any" THEN "to_lowercase" ELSE ""

\* the variant called Invalid, if any (ignored variants are looked at too)
invalid_type(vs) ==
    IF \E i \in DOMAIN vs : vs[i].name = NameInvalid
    THEN Some(CHOOSE i \in DOMAIN vs :
                /\ vs[i].name = NameInvalid
                /\ \A j \in DOMAIN vs : vs[j].name = NameInvalid => j <= i)
    ELSE None

\* the first variant marked #[default] among those the loop does not skip
default_value(vs) ==
    LET cand == { i \in DOMAIN vs : ~vs[i].ignore_variant /\ vs[i].default }
    IN  IF cand = {} THEN None
        ELSE Some(CHOOSE i \in cand : \A j \in cand : i <= j)

\* a variant of Visited that skips nothing
VisitedAll(vs) == [i \in DOMAIN vs |-> i]

\* the variants the loop visits: those without #[ignore_variant], in order
Visited(vs) ==
    SelectSeq([i \in DOMAIN vs |-> i], LAMBDA i : ~vs[i].ignore_variant)

\* the parts of one generated `if <value> == <name> { return ... }`
GeneratedIf(vs, ec, i) ==
    [ variant_name            |-> i,
      variant_case_conversion |-> variant_case_conversion(vs[i], ec),
      var_case_conversion     |-> var_case_conversion(vs[i], ec) ]

\* the ifs of get(): one `return Variant` per visited variant
check_variants(vs, ec) ==
    [k \in DOMAIN Visited(vs) |-> GeneratedIf(vs, ec, Visited(vs)[k])]

\* a variant of check_variants_result whose ifs leave the value unconverted
check_variants_result_raw_value(vs, ec) ==
    [k \in DOMAIN Visited(vs) |->
        [GeneratedIf(vs, ec, Visited(vs)[k]) EXCEPT !.var_case_conversion = ""]]

\* the ifs of get_result(): one `return Ok(Variant)` per visited variant
check_variants_result(vs, ec) ==
    [k \in DOMAIN Visited(vs) |-> GeneratedIf(vs, ec, Visited(vs)[k])]

\* a variant of Rejected that tests panic_on_invalid the wrong way round
Rejected_panic_flipped(vs, p) ==
    invalid_type(vs) = None /\ default_value(vs) = None /\ p

\* the macro panics for a declaration without any fallback
Rejected(vs, p) ==
    invalid_type(vs) = None /\ default_value(vs) = None /\ ~p

\* an outcome of generated code: kind is "value" (an enum value is returned:
\* v is the variant's position in the declaration), "ok"/"err" (a Result) or
\* "panic"; msg is the text of the panic or of the Err
Outcome(kind, v, msg) == [kind |-> kind, v |-> v, msg |-> msg]
NoOutcome == Outcome("none", 0, NoMsg)

\* what the spliced path `Enum::Invalid` names: the variant called Invalid,
\* 0 when the enum has none
InvalidPath(vs) == IF invalid_type(vs) # None THEN invalid_type(vs)[1] ELSE 0

\* a variant of invalid_value in which a default variant wins over the panic
invalid_value_default_first(vs, p) ==
    IF default_value(vs) # None THEN Outcome("value", default_value(vs)[1], NoMsg)
    ELSE IF p THEN Outcome("panic", 0, InvalidMsg)
    ELSE Outcome("value", InvalidPath(vs), NoMsg)

\* the expression spliced as the tail of get() and as the body of default()
invalid_value(vs, p) ==
    IF default_value(vs) # None
    THEN IF p THEN Outcome("panic", 0, InvalidMsg)
              ELSE Outcome("value", default_value(vs)[1], NoMsg)
    ELSE IF p THEN Outcome("panic", 0, InvalidMsg)
              ELSE Outcome("value", InvalidPath(vs), NoMsg)

\* the macro as a whole
enum_from_env(vs, ec, p) ==
    IF Rejected(vs, p)
    THEN [ rejected              |-> TRUE,
           check_variants        |-> <<>>,
           check_variants_result |-> <<>>,
           invalid_value         |-> NoOutcome ]
    ELSE [ rejected              |-> FALSE,
           check_variants        |-> check_variants(vs, ec),
           check_variants_result |-> check_variants_result(vs, ec),
           invalid_value         |-> invalid_value(vs, p) ]

----------------------------------------------------------------------------
(* The generated code *)

ApplyConversion(tokens, s) ==
    CASE tokens = "to_uppercase" -> to_uppercase(s)
      [] tokens = "to_lowercase" -> to_lowercase(s)
      [] OTHER                   -> s

\* Option<&str> == Option<&str>
OptionEq(a, b) == a = b

\* the condition of one generated `if`: e is what std::env::var gives
CheckMatches(cv, vs, e) ==
    OptionEq(IF e = None THEN None ELSE Some(ApplyConversion(cv.var_case_conversion, e[1])),
             Some(ApplyConversion(cv.variant_case_conversion, vs[cv.variant_name].name)))

\* a variant of RunChecks in which a later matching `if` overrides an earlier
RECURSIVE RunChecksLastWins(_, _, _, _)
RunChecksLastWins(cvs, vs, e, k) ==
    IF k > Len(cvs) THEN 0
    ELSE LET later == RunChecksLastWins(cvs, vs, e, k + 1)
         IN  IF later # 0 THEN later
             ELSE IF CheckMatches(cvs[k], vs, e) THEN cvs[k].variant_name
             ELSE 0

\* the generated ifs run in order; the first whose condition holds returns
RECURSIVE RunChecks(_, _, _, _)
RunChecks(cvs, vs, e, k) ==
    IF k > Len(cvs) THEN 0
    ELSE IF CheckMatches(cvs[k], vs, e) THEN cvs[k].variant_name
    ELSE RunChecks(cvs, vs, e, k + 1)

\* fn get() -> Self
get(im, vs, e) ==
    LET m == RunChecks(im.check_variants, vs, e, 1)
    IN  IF m # 0 THEN Outcome("value", m, NoMsg) ELSE im.invalid_value

\* a variant of get_result that ends in the fallback variant, as get() does
get_result_falls_back(im, vs, e) ==
    LET m == RunChecks(im.check_variants_result, vs, e, 1)
    IN  IF m # 0 THEN Outcome("ok", m, NoMsg)
        ELSE IF im.invalid_value.kind = "value" THEN Outcome("ok", im.invalid_value.v, NoMsg)
        ELSE Outcome("err", 0, InvalidMsg)

\* fn get_result() -> Result<Self, String>
get_result(im, vs, e) ==
    LET m == RunChecks(im.check_variants_result, vs, e, 1)
    IN  IF m # 0 THEN Outcome("ok", m, NoMsg) ELSE Outcome("err", 0, InvalidMsg)

\* fn default() -> Self
default(im) == im.invalid_value

\* a variant of enumerated_field that lets the error abort the struct
enumerated_field_propagates(im, vs, e) ==
    LET r == get_result(im, vs, e)
    IN  IF r.kind = "ok" THEN Outcome("value", r.v, NoMsg) ELSE Outcome("panic", 0, r.msg)

\* the initializer env_for_struct generates for an #[enumerated] field
enumerated_field(im, vs, e) ==
    LET r == get_result(im, vs, e)
    IN  IF r.kind = "ok" THEN Outcome("value", r.v, NoMsg) ELSE default(im)

----------------------------------------------------------------------------
(* env_for_struct: the ConfigStruct derive macro and the field it generates *)

Digits == <<"0","1","2","3","4","5","6","7","8","9">>

\* str::trim: the text between the first and the last character that is not
\* a blank
trim(s) ==
    LET ns == { k \in DOMAIN s : s[k] # " " }
    IN  IF ns = {} THEN <<>>
        ELSE SubSeq(s, CHOOSE k \in ns : \A j \in ns : k <= j,
                       CHOOSE k \in ns : \A j \in ns : j <= k)

\* the number a string of decimal digits denotes
RECURSIVE DecimalValue(_)
DecimalValue(s) ==
    IF s = <<>> THEN 0
    ELSE 10 * DecimalValue(SubSeq(s, 1, Len(s) - 1)) + (IndexIn(Digits, s[Len(s)]) - 1)

\* str::parse::<i32>: Some(n) for a non-empty string of digits, None (an Err)
\* for anything else; no string of the model carries a sign or reaches the
\* width of i32
parse_number(s) ==
    IF Len(s) > 0 /\ \A k \in DOMAIN s : IndexIn(Digits, s[k]) # 0
    THEN Some(DecimalValue(s)) ELSE None

\* str::parse::<bool>: only the literals "true" and "false" parse
parse_bool(s) ==
    IF s = <<"t","r","u","e">> THEN Some(TRUE)
    ELSE IF s = <<"f","a","l","s","e">> THEN Some(FALSE)
    ELSE None

\* the values the environment may hold for a variable of the struct
Val42 == <<"4","2">>
ValBlank7 == <<" ","7">>
ValTrue == <<"t","r","u","e">>
StoreValues == { Val42, ValBlank7, ValTrue, NameAb }

\* the field's identifier, and the names of the two var_name attributes
field_ident == <<"p","o","r","t">>
FieldVarName == <<"P">>
EnumVarName == <<"M">>

\* the variables of the environment
VarNames == { to_uppercase(field_ident), FieldVarName,
              to_uppercase(enum_name), EnumVarName }

\* a literal inside #[default(...)]: a string literal or an integer literal
Literal(lit, text) == [lit |-> lit, text |-> text]
DefaultAttrs ==
    { None, Some(Literal("Str", Val42)), Some(Literal("Str", NameAb)),
      Some(Literal("Int", Val42)) }

\* the declared type of the field: Mode is the enum, and carries #[enumerated]
FieldTypes == { "String", "i32", "bool", "Mode" }

FieldDecls ==
    { f \in [ident : {field_ident}, ty : FieldTypes, enumerated : BOOLEAN,
             var_name : {None, Some(FieldVarName)}, default : DefaultAttrs] :
        f.enumerated <=> f.ty = "Mode" }

\* the enum of the struct's #[enumerated] field
StructEnumVariants ==
    << [name |-> NameAb, case |-> "none", ignore_variant |-> FALSE, default |-> FALSE],
       [name |-> NameInvalid, case |-> "none", ignore_variant |-> FALSE, default |-> FALSE] >>

\* get_default_value: only a string literal inside default(...) is returned
get_default_value(attr) ==
    IF attr # None /\ attr[1].lit = "Str" THEN Some(attr[1].text) ELSE None

\* get_function_primitive_type
get_function_primitive_type(ty, enumerated) ==
    CASE ty = "String" -> "String"
      [] ty = "i32"    -> "Number"
      [] ty = "bool"   -> "Bool"
      [] OTHER         -> IF enumerated THEN "ImplementedEnum" ELSE "InvalidType"

\* a variant of NameToCheckFor that never looks at the var_name attribute
NameToCheckFor_ident_only(attr, ident) == to_uppercase(ident)

\* the variable a declaration reads: its var_name attribute, else its
\* identifier in upper case
NameToCheckFor(attr, ident) ==
    IF get_var_name(attr) # None THEN get_var_name(attr)[1] ELSE to_uppercase(ident)

\* what a field initialiser of the generated get() evaluates to: kind is
\* "string" (s), "number" (n), "bool" (b), "enum" (v, a variant's position)
\* or "panic" (msg); read is the set of variables it read
FieldOutcome(kind, s, n, b, v, msg) ==
    [kind |-> kind, s |-> s, n |-> n, b |-> b, v |-> v, msg |-> msg]
StringValue(s) == FieldOutcome("string", s, 0, FALSE, 0, NoMsg)
NumberValue(n) == FieldOutcome("number", <<>>, n, FALSE, 0, NoMsg)
BoolValue(b) == FieldOutcome("bool", <<>>, 0, b, 0, NoMsg)
EnumValue(v) == FieldOutcome("enum", <<>>, 0, FALSE, v, NoMsg)
FieldPanic(msg) == FieldOutcome("panic", <<>>, 0, FALSE, 0, msg)

\* the panic of Result::unwrap on a parse error: it shows the error only
\* (the text is written here without the back quotes of the original)
ParseErrorText == <<"P","a","r","s","e","E","r","r","o","r">>
UnwrapMsg == Msg("called Result::unwrap() on an Err value: {:?}", <<ParseErrorText>>)

\* the panic of a field without value and without default
NoValueMsg(ident) ==
    Msg("No environment variable or default value found for '{}'", <<ident>>)

\* a variant of default_value_or_panic whose panic does not say which field
default_value_or_panic_anonymous(f) ==
    LET d == get_default_value(f.default)
        t == get_function_primitive_type(f.ty, f.enumerated)
    IN  IF d = None THEN FieldPanic(InvalidMsg)
        ELSE CASE t = "String" -> StringValue(d[1])
               [] t = "Number" -> IF parse_number(d[1]) # None
                                  THEN NumberValue(parse_number(d[1])[1])
                                  ELSE FieldPanic(UnwrapMsg)
               [] t = "Bool"   -> IF parse_bool(d[1]) # None
                                  THEN BoolValue(parse_bool(d[1])[1])
                                  ELSE FieldPanic(UnwrapMsg)
               [] OTHER        -> FieldPanic(NoMsg)

\* the expression spliced where the variable is absent or does not parse
default_value_or_panic(f) ==
    LET d == get_default_value(f.default)
        t == get_function_primitive_type(f.ty, f.enumerated)
    IN  IF d = None THEN FieldPanic(NoValueMsg(f.ident))
        ELSE CASE t = "String" -> StringValue(d[1])
               [] t = "Number" -> IF parse_number(d[1]) # None
                                  THEN NumberValue(parse_number(d[1])[1])
                                  ELSE FieldPanic(UnwrapMsg)
               [] t = "Bool"   -> IF parse_bool(d[1]) # None
                                  THEN BoolValue(parse_bool(d[1])[1])
                                  ELSE FieldPanic(UnwrapMsg)
               [] OTHER        -> FieldPanic(NoMsg)

\* a variant of bool_field that escalates to the default like a number does
bool_field_uses_default(f, raw) ==
    IF raw # None
    THEN IF parse_bool(raw[1]) # None THEN BoolValue(parse_bool(raw[1])[1])
         ELSE default_value_or_panic(f)
    ELSE default_value_or_panic(f)

\* the initialiser of a bool field
bool_field(f, raw) ==
    IF raw # None
    THEN IF parse_bool(raw[1]) # None THEN BoolValue(parse_bool(raw[1])[1])
         ELSE BoolValue(FALSE)
    ELSE BoolValue(FALSE)

\* the initialiser of a String field
string_field(f, raw) ==
    IF raw # None THEN StringValue(raw[1]) ELSE default_value_or_panic(f)

\* the initialiser of a numeric field
number_field(f, raw) ==
    IF raw # None
    THEN IF parse_number(trim(raw[1])) # None
         THEN NumberValue(parse_number(trim(raw[1]))[1])
         ELSE default_value_or_panic(f)
    ELSE default_value_or_panic(f)

\* the initialiser of an #[enumerated] field, as a field outcome
enum_field(im, vs, e) ==
    LET r == enumerated_field(im, vs, e)
    IN  IF r.kind = "panic" THEN FieldPanic(r.msg) ELSE EnumValue(r.v)

\* the variable a field initialiser reads: the field's for a primitive, the
\* one the enum's own get_result() reads for an #[enumerated] field
FieldReads(f, vn) ==
    IF get_function_primitive_type(f.ty, f.enumerated) = "ImplementedEnum"
    THEN NameToCheckFor(vn, enum_name)
    ELSE NameToCheckFor(f.var_name, f.ident)

\* one entry of check_fields, evaluated in environment st
check_field(f, vn, im, vs, st) ==
    LET t == get_function_primitive_type(f.ty, f.enumerated)
        raw == st[FieldReads(f, vn)]
    IN  CASE t = "Bool"   -> bool_field(f, raw)
          [] t = "String" -> string_field(f, raw)
          [] t = "Number" -> number_field(f, raw)
          [] OTHER        -> enum_field(im, vs, raw)

\* the field after a get() of the struct, with the variable that was read
Populated(out, read) == [out |-> out, read |-> read]
NotPopulated == Populated(FieldOutcome("none", <<>>, 0, FALSE, 0, NoMsg), None)

\* a running call: op is the function, pc the generated `if` it is at (0 when
\* no call is running), reads the number of std::env::var calls it has made,
\* held the values the variable has had since the call began
Running(op, pc, reads, held) == [op |-> op, pc |-> pc, reads |-> reads, held |-> held]
IdleRun == Running("none", 0, 0, {})

NoField ==
    [ident |-> field_ident, ty |-> "String", enumerated |-> FALSE,
     var_name |-> None, default |-> None]
EmptyStore == [n \in VarNames |-> None]

----------------------------------------------------------------------------
(* The state machine *)

\* a call that has returned: which function, and its outcome
Call(op, out) == [op |-> op, kind |-> out.kind, v |-> out.v, msg |-> out.msg]
NoCall == Call("none", NoOutcome)

Init ==
    /\ variants \in VariantLists
    /\ enum_case \in CaseAttrs
    /\ panic_on_invalid \in BOOLEAN
    /\ impl = enum_from_env(variants, enum_case, panic_on_invalid)
    /\ env = None
    /\ ret = NoCall
    /\ var_name = var_name_attr
    /\ field = NoField
    /\ store = EmptyStore
    /\ populated = NotPopulated
    /\ run = IdleRun

\* std::env::set_var by the program or its surroundings
SetVar ==
    /\ \E v \in EnvValues : env' = Some(v)
    /\ env' # env
    /\ ret' = NoCall
    /\ UNCHANGED <<variants, enum_case, panic_on_invalid, impl>>
    /\ UNCHANGED <<structVars, run>>

\* std::env::remove_var
RemoveVar ==
    /\ env # None
    /\ env' = None
    /\ ret' = NoCall
    /\ UNCHANGED <<variants, enum_case, panic_on_invalid, impl>>
    /\ UNCHANGED <<structVars, run>>

\* a call of the generated get()
CallGet ==
    /\ ~impl.rejected
    /\ ret' = Call("get", get(impl, variants, env))
    /\ UNCHANGED <<variants, enum_case, panic_on_invalid, impl, env>>
    /\ UNCHANGED <<structVars, run>>

\* a call of the generated get_result()
CallGetResult ==
    /\ ~impl.rejected
    /\ ret' = Call("get_result", get_result(impl, variants, env))
    /\ UNCHANGED <<variants, enum_case, panic_on_invalid, impl, env>>
    /\ UNCHANGED <<structVars, run>>

\* ConfigStruct get() of a struct whose #[enumerated] field is this enum
CallStructGet ==
    /\ ~impl.rejected
    /\ ret' = Call("struct_get", enumerated_field(impl, variants, env))
    /\ UNCHANGED <<variants, enum_case, panic_on_invalid, impl, env>>
    /\ UNCHANGED <<structVars, run>>

Next == SetVar \/ RemoveVar \/ CallGet \/ CallGetResult \/ CallStructGet

Spec == Init /\ [][Next]_vars

----------------------------------------------------------------------------
(* The state machine of a struct with one field and the enum Mode *)

InitStruct ==
    /\ variants = StructEnumVariants
    /\ enum_case = "none"
    /\ panic_on_invalid \in BOOLEAN
    /\ impl = enum_from_env(variants, enum_case, panic_on_invalid)
    /\ env = None
    /\ ret = NoCall
    /\ var_name \in {None, Some(EnumVarName)}
    /\ field \in FieldDecls
    /\ store = EmptyStore
    /\ populated = NotPopulated
    /\ run = IdleRun

\* std::env::set_var of any variable
StoreSet ==
    /\ \E n \in VarNames, v \in StoreValues : store' = [store EXCEPT ![n] = Some(v)]
    /\ store' # store
    /\ ret' = NoCall
    /\ populated' = NotPopulated
    /\ UNCHANGED <<variants, enum_case, panic_on_invalid, impl, env, var_name, field, run>>

\* std::env::remove_var of any variable
StoreRemove ==
    /\ \E n \in VarNames : store[n] # None /\ store' = [store EXCEPT ![n] = None]
    /\ ret' = NoCall
    /\ populated' = NotPopulated
    /\ UNCHANGED <<variants, enum_case, panic_on_invalid, impl, env, var_name, field, run>>

\* a call of the generated get() of the struct
Populate ==
    /\ populated' = Populated(check_field(field, var_name, impl, variants, store),
                              Some(FieldReads(field, var_name)))
    /\ ret' = NoCall
    /\ UNCHANGED <<variants, enum_case, panic_on_invalid, impl, env, var_name, field, store, run>>

\* a call of the enum's generated get()
EnumGet ==
    /\ ret' = Call("get", get(impl, variants, store[NameToCheckFor(var_name, enum_name)]))
    /\ populated' = Populated(NotPopulated.out, Some(NameToCheckFor(var_name, enum_name)))
    /\ UNCHANGED <<variants, enum_case, panic_on_invalid, impl, env, var_name, field, store, run>>

NextStruct == StoreSet \/ StoreRemove \/ Populate \/ EnumGet

SpecStruct == InitStruct /\ [][NextStruct]_vars

----------------------------------------------------------------------------
(* The state machine of one call running next to a writer of the variable *)

\* enums without #[default], #[ignore_variant] and `case` attributes
PlainVariantLists ==
    { vs \in VariantLists :
        \A i \in DOMAIN vs :
            ~vs[i].default /\ ~vs[i].ignore_variant /\ vs[i].case = "none" }

InitConc ==
    /\ variants \in PlainVariantLists
    /\ enum_case = "none"
    /\ panic_on_invalid \in BOOLEAN
    /\ impl = enum_from_env(variants, enum_case, panic_on_invalid)
    /\ env = None
    /\ ret = NoCall
    /\ var_name = var_name_attr
    /\ field = NoField
    /\ store = EmptyStore
    /\ populated = NotPopulated
    /\ run = IdleRun

\* the ifs of the running function
RunningIfs == IF run.op = "get" THEN impl.check_variants ELSE impl.check_variants_result

\* another thread sets or removes the variable
Write ==
    /\ \E e \in {None} \cup { Some(v) : v \in EnvValues } : env' = e
    /\ env' # env
    /\ run' = IF run.pc = 0 THEN run ELSE [run EXCEPT !.held = @ \cup {env'}]
    /\ UNCHANGED <<variants, enum_case, panic_on_invalid, impl, ret, structVars>>

\* get() or get_result() is entered
Enter ==
    /\ ~impl.rejected
    /\ run.pc = 0
    /\ \E op \in {"get", "get_result"} : run' = Running(op, 1, 0, {env})
    /\ ret' = NoCall
    /\ UNCHANGED <<variants, enum_case, panic_on_invalid, impl, env, structVars>>

\* one generated `if`: it calls std::env::var and compares
StepIf ==
    /\ run.pc \in DOMAIN RunningIfs
    /\ IF CheckMatches(RunningIfs[run.pc], variants, env)
       THEN /\ ret' = Call(run.op, Outcome(IF run.op = "get" THEN "value" ELSE "ok",
                                           RunningIfs[run.pc].variant_name, NoMsg))
            /\ run' = [run EXCEPT !.pc = 0, !.reads = @ + 1]
       ELSE /\ ret' = ret
            /\ run' = [run EXCEPT !.pc = @ + 1, !.reads = @ + 1]
    /\ UNCHANGED <<variants, enum_case, panic_on_invalid, impl, env, structVars>>

\* the tail after the last `if`: invalid_value, or the Err of get_result()
StepTail ==
    /\ run.pc = Len(RunningIfs) + 1
    /\ ret' = Call(run.op, IF run.op = "get" THEN impl.invalid_value
                           ELSE Outcome("err", 0, InvalidMsg))
    /\ run' = [run EXCEPT !.pc = 0]
    /\ UNCHANGED <<variants, enum_case, panic_on_invalid, impl, env, structVars>>

NextConc == Write \/ Enter \/ StepIf \/ StepTail

SpecConc == InitConc /\ [][NextConc]_vars

----------------------------------------------------------------------------
(* Vocabulary of the properties *)

Min(S) == CHOOSE x \in S : \A y \in S : x <= y

\* two strings are equal as wholes: same length, same character everywhere
WholeEqual(a, b) == Len(a) = Len(b) /\ \A k \in 1..Len(a) : a[k] = b[k]

Eligible(i) == ~variants[i].ignore_variant

\* the two sides of variant i's comparison, as the generated code forms them
NameAsCompared(i) ==
    ApplyConversion(variant_case_conversion(variants[i], enum_case), variants[i].name)
ValueAsCompared(i) ==
    ApplyConversion(var_case_conversion(variants[i], enum_case), env[1])

\* the variants that are not ignored and whose comparison succeeds on env
Matching ==
    { i \in DOMAIN variants :
        Eligible(i) /\ env # None /\ WholeEqual(ValueAsCompared(i), NameAsCompared(i)) }

\* the rule the documentation gives variant i: its own `case` attribute,
\* otherwise the enum's, otherwise exact
EffectiveRule(i) ==
    IF variants[i].case # "none" THEN variants[i].case
    ELSE IF enum_case # "none" THEN enum_case
    ELSE "exact"

\* a variant name normalized under a rule
RuleName(rule, name) ==
    CASE rule = "uppercase" -> to_uppercase(name)
      [] rule = "lowercase" -> to_lowercase(name)
      [] rule = "any"       -> to_lowercase(name)
      [] OTHER              -> name

\* a raw value normalized under a rule: only `any` touches it
RuleValue(rule, value) == IF rule = "any" THEN to_lowercase(value) ELSE value

\* the variants that match when the effective rule governs both sides
RuleMatching ==
    { i \in DOMAIN variants :
        /\ Eligible(i)
        /\ env # None
        /\ WholeEqual(RuleValue(EffectiveRule(i), env[1]),
                      RuleName(EffectiveRule(i), variants[i].name)) }

\* the variant get() falls back to without panic_on_invalid: the first
\* #[default] variant the macro visits, otherwise the one called Invalid
FallbackVariant ==
    LET d == { i \in DOMAIN variants : Eligible(i) /\ variants[i].default }
        m == { i \in DOMAIN variants : variants[i].name = NameInvalid }
    IN  IF d # {} THEN Min(d) ELSE IF m # {} THEN Min(m) ELSE 0

\* the last get() ended in the enum's fallback
GetFellBack ==
    IF panic_on_invalid THEN ret.kind = "panic"
    ELSE ret.kind = "value" /\ ret.v = FallbackVariant

\* a message names x: x is one of the values interpolated into it
Mentions(msg, x) == \E k \in DOMAIN msg.args : msg.args[k] = x

\* the last call returned variant i because it matched
ReturnedVariant ==
    \/ ret.op = "get_result" /\ ret.kind = "ok"
    \/ ret.op = "get" /\ ret.kind = "value" /\ Matching # {}

----------------------------------------------------------------------------
(* C1: get() and get_result() return, when any variant matches, the first   *)
(* variant in declaration order that is not ignored and whose normalized    *)
(* name equals the (possibly normalized) value as a whole string; without a *)
(* match get_result() returns no variant, so an ignored variant, or one the *)
(* value is only a prefix of, is never returned as a match.                 *)
C1_FirstMatchWins ==
    ret.op \in {"get", "get_result"} =>
        /\ Matching # {} =>
              /\ ret.kind = (IF ret.op = "get" THEN "value" ELSE "ok")
              /\ ret.v = Min(Matching)
        /\ Matching = {} /\ ret.op = "get_result" => ret.kind = "err"
        /\ ReturnedVariant =>
              /\ Eligible(ret.v)
              /\ WholeEqual(ValueAsCompared(ret.v), NameAsCompared(ret.v))
              /\ Len(env[1]) = Len(variants[ret.v].name)

\* two variants match the value and the first declared one was returned
C1_Witness ==
    /\ ret.op = "get_result"
    /\ Cardinality(Matching) >= 2
    /\ ret.kind = "ok"
    /\ ret.v = Min(Matching)

----------------------------------------------------------------------------
(* C2: for every variant whose effective rule is `any`, set on the variant  *)
(* or inherited from the enum, the value and the name are both lowercased,  *)
(* so every casing of the variant's name resolves to it (or to an earlier   *)
(* variant that folds to the same string).                                  *)
C2_FoldMatchesAnyCasing ==
    ret.op \in {"get", "get_result"} =>
        \A i \in DOMAIN variants :
            ( /\ Eligible(i)
              /\ EffectiveRule(i) = "any"
              /\ env # None
              /\ to_lowercase(env[1]) = to_lowercase(variants[i].name) )
            => /\ ret.kind = (IF ret.op = "get" THEN "value" ELSE "ok")
               /\ ret.v \in 1..i
               /\ to_lowercase(variants[ret.v].name) = to_lowercase(env[1])

----------------------------------------------------------------------------
----------------------------------------------------------------------------
(* C4: one effective rule applies to each variant (its own, otherwise the   *)
(* enum's, otherwise exact) and governs the normalization of both sides of  *)
(* the comparison, so get_result() returns the first variant that matches   *)
(* under its effective rule and an error when there is none.                *)
C4_EffectiveRuleGovernsBothSides ==
    ret.op = "get_result" =>
        IF RuleMatching # {}
        THEN ret.kind = "ok" /\ ret.v = Min(RuleMatching)
        ELSE ret.kind = "err"

----------------------------------------------------------------------------
(* C5: without panic_on_invalid, when no variant matches (the variable      *)
(* being absent included), get() returns the variant marked #[default] if   *)
(* one is declared and otherwise the variant called Invalid.                *)
C5_DefaultThenInvalid ==
    ret.op = "get" /\ ~panic_on_invalid /\ Matching = {} =>
        /\ ret.kind = "value"
        /\ IF \E i \in DOMAIN variants : variants[i].default
           THEN variants[ret.v].default
           ELSE variants[ret.v].name = NameInvalid

----------------------------------------------------------------------------
(* C6: with panic_on_invalid, get() aborts with "Invalid environment        *)
(* variable value" exactly when no variant matches and returns the matched  *)
(* variant otherwise; get_result() never aborts: Ok(variant) on a match, an *)
(* error value otherwise, whatever the variable holds.                      *)
C6_PanicPolicy ==
    panic_on_invalid =>
        /\ ret.op = "get" =>
              IF Matching = {}
              THEN ret.kind = "panic" /\ ret.msg.text = "Invalid environment variable value"
              ELSE ret.kind = "value" /\ ret.v = Min(Matching)
        /\ ret.op = "get_result" =>
              IF Matching = {}
              THEN ret.kind = "err"
              ELSE ret.kind = "ok" /\ ret.v = Min(Matching)

\* get() of a panic_on_invalid enum with a default variant aborted on a value
\* that matches nothing
C6_Witness ==
    /\ panic_on_invalid
    /\ \E i \in DOMAIN variants : Eligible(i) /\ variants[i].default
    /\ env # None
    /\ ret.op = "get"
    /\ ret.kind = "panic"

----------------------------------------------------------------------------
(* C7: the struct's get() never fails because of an enum field: whatever    *)
(* the enum's configuration and the variable, a failed get_result()         *)
(* degrades to the enum's default or marker and the struct is produced.     *)
C7_StructNeverFails ==
    ret.op = "struct_get" => ret.kind = "value"

(* C7 as amended: the field takes the matched variant when one matches;     *)
(* otherwise, without panic_on_invalid, the enum's fallback variant, and    *)
(* with panic_on_invalid the struct's get() aborts.                         *)
C7_StructFieldDegrades ==
    ret.op = "struct_get" =>
        IF Matching # {} THEN ret.kind = "value" /\ ret.v = Min(Matching)
        ELSE IF panic_on_invalid
             THEN ret.kind = "panic" /\ ret.msg.text = "Invalid environment variable value"
             ELSE ret.kind = "value" /\ ret.v = FallbackVariant

\* the struct was produced from a value that matches no variant
C7_Witness ==
    /\ ret.op = "struct_get"
    /\ ~panic_on_invalid
    /\ env # None
    /\ Matching = {}
    /\ ret.kind = "value"
    /\ ret.v = FallbackVariant

----------------------------------------------------------------------------
(* C8: the variant called Invalid is excluded from matching: when the       *)
(* variable holds its (normalized) name, get_result() reports an error.     *)
C8_MarkerNeverMatches ==
    ret.op = "get_result" =>
        \A i \in DOMAIN variants :
            ( /\ variants[i].name = NameInvalid
              /\ env # None
              /\ WholeEqual(ValueAsCompared(i), NameAsCompared(i)) )
            => ret.kind = "err"

(* C8 as amended: the variant called Invalid is excluded from matching only *)
(* when it is marked #[ignore_variant]: then get_result() never returns it  *)
(* and get() returns it only as the fallback; otherwise it is matched like  *)
(* any other variant, and its (normalized) name resolves to Ok of it or of  *)
(* an earlier match.                                                        *)
C8_MarkerMatchesUnlessIgnored ==
    \A i \in DOMAIN variants :
        variants[i].name = NameInvalid =>
            /\ ~Eligible(i) =>
                  /\ ~(ret.op = "get_result" /\ ret.kind = "ok" /\ ret.v = i)
                  /\ ret.op = "get" /\ ret.kind = "value" /\ ret.v = i => Matching = {}
            /\ ( /\ Eligible(i)
                 /\ ret.op = "get_result"
                 /\ env # None
                 /\ WholeEqual(ValueAsCompared(i), NameAsCompared(i)) )
               => ret.kind = "ok" /\ ret.v \in 1..i

\* get_result() returned Ok(Invalid) for the value "Invalid"
C8_Witness ==
    /\ ret.op = "get_result"
    /\ env = Some(NameInvalid)
    /\ ret.kind = "ok"
    /\ variants[ret.v].name = NameInvalid

----------------------------------------------------------------------------
(* C9: the error of get_result() for a value that matches no variant names  *)
(* the queried variable and the unmatched value (the variable alone when it *)
(* is absent), and is never a variant.                                      *)
C9_ErrorNamesVariableAndValue ==
    ret.op = "get_result" /\ ret.kind = "err" =>
        /\ ret.v = 0
        /\ Mentions(ret.msg, var_name_to_check_for)
        /\ env # None => Mentions(ret.msg, env[1])

(* C9 as amended: when no variant matches, get_result() returns the fixed   *)
(* text "Invalid environment variable value", with nothing interpolated,    *)
(* whether the variable is absent or holds an unmatched value; it is never  *)
(* a variant.                                                               *)
C9_ErrorIsFixedText ==
    ret.op = "get_result" /\ Matching = {} =>
        /\ ret.kind = "err"
        /\ ret.v = 0
        /\ ret.msg.text = "Invalid environment variable value"
        /\ ret.msg.args = <<>>

\* get_result() of an enum that has a fallback variant returned the error
\* for a value that matches nothing
C9_Witness ==
    /\ ret.op = "get_result"
    /\ ~panic_on_invalid
    /\ env # None
    /\ Matching = {}
    /\ ret.kind = "err"

----------------------------------------------------------------------------
(* C10: get_result() returns Ok(v) exactly when get() returns v, and an     *)
(* error exactly when get() aborts.                                         *)
C10_ResultMirrorsGet ==
    [][ ret.op = "get" /\ ret'.op = "get_result" =>
          /\ ret'.kind = "ok" <=> ret.kind = "value"
          /\ ret'.kind = "ok" => ret'.v = ret.v
          /\ ret'.kind = "err" <=> ret.kind = "panic" ]_vars

(* C10 as amended: the two accessors match alike: get_result() returns      *)
(* Ok(v) exactly when some variant matches, and get() then returns the same *)
(* v; get_result() returns an error exactly when none matches, which is     *)
(* when get() aborts (panic_on_invalid) or returns the fallback variant.    *)
C10_SameMatchDifferentFallback ==
    [][ ret.op = "get" /\ ret'.op = "get_result" =>
          IF Matching # {}
          THEN ret.kind = "value" /\ ret'.kind = "ok" /\ ret'.v = ret.v
          ELSE /\ ret'.kind = "err"
               /\ IF panic_on_invalid THEN ret.kind = "panic"
                  ELSE ret.kind = "value" /\ ret.v = FallbackVariant ]_vars

\* get_result() returned the error where get() returns the fallback variant
C10_Witness ==
    /\ ret.op = "get_result"
    /\ ret.kind = "err"
    /\ ~panic_on_invalid
    /\ get(impl, variants, env).kind = "value"

----------------------------------------------------------------------------
(* C11: a declaration with no variant called Invalid, no variant marked     *)
(* #[default] and no panic_on_invalid is rejected by the macro, and nothing *)
(* is rejected at lookup: for every declaration the macro accepts, get()    *)
(* ends, whatever the variable holds, in a variant of the enum or in the    *)
(* panic of panic_on_invalid, also when the only #[default] or Invalid sits *)
(* on an ignored variant.                                                   *)
C11_FallbackDeclaredAtSetup ==
    /\ ( /\ \A i \in DOMAIN variants : variants[i].name # NameInvalid
         /\ \A i \in DOMAIN variants : ~variants[i].default
         /\ ~panic_on_invalid )
       => impl.rejected
    /\ impl.rejected => ret.op = "none"
    /\ ~impl.rejected => panic_on_invalid \/ FallbackVariant \in DOMAIN variants
    /\ ret.op = "get" =>
          \/ ret.kind = "panic" /\ panic_on_invalid
          \/ ret.kind = "value" /\ ret.v \in DOMAIN variants

\* get() fell back to the variant called Invalid, which is ignored and is
\* the only fallback the declaration has
C11_Witness ==
    /\ ~panic_on_invalid
    /\ \A i \in DOMAIN variants : ~variants[i].default
    /\ env # None
    /\ ret.op = "get"
    /\ ret.kind = "value"
    /\ variants[ret.v].name = NameInvalid
    /\ variants[ret.v].ignore_variant

----------------------------------------------------------------------------
(* Vocabulary of the struct properties *)

\* the struct's get() has run since the environment last changed
FieldPopulated == populated.out.kind # "none"

\* the name the field is declared to read: its override, else its
\* identifier in upper case; likewise for the enum
FieldOwnName ==
    IF field.var_name # None THEN field.var_name[1] ELSE to_uppercase(field.ident)
EnumOwnName ==
    IF var_name # None THEN var_name[1] ELSE to_uppercase(enum_name)

\* what the environment holds under the field's own name
FieldRaw == store[FieldOwnName]

\* the field declares #[default(...)] with some literal
DefaultDeclared == field.default # None
DefaultText == field.default[1].text

IsPrimitive == field.ty \in {"String", "i32", "bool"}

----------------------------------------------------------------------------
(* C12: a String field resolves to the raw value verbatim when the variable *)
(* is present, otherwise to the declared literal default verbatim, and      *)
(* otherwise get() of the struct aborts with "No environment variable or    *)
(* default value found for '<field>'", naming the field.                    *)
C12_StringField ==
    field.ty = "String" /\ FieldPopulated =>
        IF FieldRaw # None
        THEN populated.out.kind = "string" /\ populated.out.s = FieldRaw[1]
        ELSE IF DefaultDeclared
        THEN populated.out.kind = "string" /\ populated.out.s = DefaultText
        ELSE /\ populated.out.kind = "panic"
             /\ populated.out.msg = NoValueMsg(field.ident)

----------------------------------------------------------------------------
(* C13: a numeric field resolves to the parse of the trimmed raw value when *)
(* that parse succeeds; when the variable is absent or does not parse it    *)
(* resolves to the parse of the declared default (default 42 and no         *)
(* variable gives 42); get() of the struct aborts only when no default is   *)
(* declared.                                                                *)
C13_NumericField ==
    field.ty = "i32" /\ FieldPopulated =>
        LET p == IF FieldRaw # None THEN parse_number(trim(FieldRaw[1])) ELSE None
        IN  IF p # None
            THEN populated.out.kind = "number" /\ populated.out.n = p[1]
            ELSE IF DefaultDeclared
            THEN /\ populated.out.kind = "number"
                 /\ parse_number(DefaultText) # None
                        => populated.out.n = parse_number(DefaultText)[1]
            ELSE populated.out.kind = "panic"

----------------------------------------------------------------------------
----------------------------------------------------------------------------
----------------------------------------------------------------------------
(* C17 as stated: every fatal failure names the offending field or          *)
(* variable in its message: the abort of the enum's get(), the abort of the *)
(* struct's get() on an enumeration field, and the abort on a primitive     *)
(* field whose value and default are unusable.                              *)
C17_EveryAbortNamesItsSource ==
    /\ populated.out.kind = "panic" =>
          \/ Mentions(populated.out.msg, field.ident)
          \/ Mentions(populated.out.msg, populated.read[1])
    /\ ret.kind = "panic" => Mentions(ret.msg, populated.read[1])

(* C17 as the code has it: only the abort on a primitive field that has no  *)
(* usable value and no string-literal default names the field; the abort on *)
(* a default that does not parse shows the parse error only, and the aborts *)
(* of the enum's get() and of an enumeration field carry the fixed text     *)
(* "Invalid environment variable value".                                    *)
C17_OnlyMissingValueNamesField ==
    /\ populated.out.kind = "panic" /\ IsPrimitive =>
          IF DefaultDeclared /\ field.default[1].lit = "Str"
          THEN populated.out.msg = UnwrapMsg
          ELSE populated.out.msg = NoValueMsg(field.ident)
    /\ populated.out.kind = "panic" /\ ~IsPrimitive => populated.out.msg = InvalidMsg
    /\ ret.kind = "panic" => ret.msg = InvalidMsg

\* a numeric field without a value aborted, and the message names the field
C17_Witness ==
    /\ field.ty = "i32"
    /\ FieldRaw = None
    /\ populated.out.kind = "panic"
    /\ Mentions(populated.out.msg, field.ident)

----------------------------------------------------------------------------
(* Vocabulary of the interleaving property *)

\* a call has returned and its outcome is in ret
CallReturned == run.pc = 0 /\ ret.op \in {"get", "get_result"}

\* what the call would return had it seen the single value e
ResolutionOf(e) ==
    Call(ret.op, IF ret.op = "get" THEN get(impl, variants, e)
                 ELSE get_result(impl, variants, e))

----------------------------------------------------------------------------
(* C16: one resolution call reads the variable exactly once and writes      *)
(* nothing, so whatever another thread writes meanwhile, the call returns   *)
(* the resolution of one value the variable held during the call; it never  *)
(* falls back when every value held during the call matches a variant.      *)
C16_OneReadPerCall ==
    CallReturned =>
        /\ run.reads = 1
        /\ \E e \in run.held : ret = ResolutionOf(e)
        /\ (\A e \in run.held : ResolutionOf(e).kind \in {"value", "ok"})
              => ret.kind \in {"value", "ok"}

====
